---- MODULE Spec2Model ----
(***************************************************************************)
(* Model of app/bg/filesystem/index.js: the reconciler that keeps the      *)
(* root archive's directory and mount layout in line with the user list.   *)
(*                                                                         *)
(* Every `await` of the source is one step of the model; a handler is the  *)
(* sequence of its steps, from Call... to Finish.  Strings are sequences   *)
(* of characters (one-character strings, or atoms standing for a run of    *)
(* letters), a path is a sequence of segments.                             *)
(***************************************************************************)
EXTENDS Integers, Sequences, FiniteSets, TLC

\* ---------------------------------------------------------------- bounds
\* handler calls in one behaviour
MaxCalls == 2
\* transient failures of the collaborators (storage, db, resolver) in one behaviour
MaxFail == 1
\* writes to the root archive made by somebody else than this module
MaxExt == 1
\* stands for the counter ceiling 1e9 of getAvailableName (index.js:195)
MaxCounter == 3

\* ---------------------------------------------------------------- strings
RECURSIVE Filter(_, _)
Filter(s, keep) ==
  IF s = <<>> THEN <<>>
  ELSE (IF Head(s) \in keep THEN <<Head(s)>> ELSE <<>>) \o Filter(Tail(s), keep)

Whitespace == {" "}

RECURSIVE TrimLeft(_)
TrimLeft(s) ==
  IF s # <<>> /\ Head(s) \in Whitespace THEN TrimLeft(Tail(s)) ELSE s

RECURSIVE TrimRight(_)
TrimRight(s) ==
  IF s # <<>> /\ s[Len(s)] \in Whitespace
  THEN TrimRight(SubSeq(s, 1, Len(s) - 1)) ELSE s

\* String.prototype.trim
Trim(s) == TrimRight(TrimLeft(s))

\* String.prototype.toLowerCase, on the characters the model uses
LowerChar(c) == IF c = "A" THEN "a" ELSE IF c = "B" THEN "b" ELSE c

ToLowerCase(s) == [i \in 1..Len(s) |-> LowerChar(s[i])]

\* the characters slugify keeps: \w \s and $*_+~.()'"!-:@
SlugAllowed == {"A", "B", "a", "b", "2", "3", " ", "-", "!", "untitled"}

\* replace(/[-\s]+/g, '-')
RECURSIVE CollapseDashes(_)
CollapseDashes(s) ==
  IF s = <<>> THEN <<>>
  ELSE IF Head(s) \in {"-", " "}
       THEN IF Tail(s) # <<>> /\ Head(Tail(s)) \in {"-", " "}
            THEN CollapseDashes(Tail(s))
            ELSE <<"-">> \o CollapseDashes(Tail(s))
       ELSE <<Head(s)>> \o CollapseDashes(Tail(s))

\* slugify(string) of the npm package, default options
slugify(s) == CollapseDashes(Trim(Filter(s, SlugAllowed)))

\* the decimal digits of a loop counter (template literal `${i}`)
NumStr(i) == IF i = 2 THEN "2" ELSE IF i = 3 THEN "3" ELSE IF i = 4 THEN "4" ELSE "n"

\* ---------------------------------------------------------------- paths
joinPath(dir, name) == IF name = <<>> THEN dir ELSE Append(dir, name)

PATHS_DATA == << <<"data">> >>
PATHS_DATA_NS(ns) == Append(PATHS_DATA, ns)
PATHS_LIBRARY == << <<"library">> >>
PATHS_SETTINGS == << <<"settings">> >>
PATHS_USERS == << <<"users">> >>
PATHS_USER(label) == Append(PATHS_USERS, label)
PATHS_DEFAULT_USER == << <<"public">> >>

RootPath == <<>>
Parent(path) == SubSeq(path, 1, Len(path) - 1)

\* ---------------------------------------------------------------- data
Keys == {"aa", "bb"}
NoKey == "nokey"

\* addresses: a dat:// URL of a key, a raw key, and a URL of another scheme
UrlA == <<"dat://", "aa">>
UrlARaw == <<"aa">>
UrlB == <<"dat://", "bb">>
UrlBad == <<"http://", "aa">>

\* dat.archives.fromURLToKey(url, true): a raw key is returned as it is, a
\* dat:// URL gives its host; anything else throws (NoKey)
fromURLToKey(url) ==
  IF Len(url) = 1 /\ url[1] \in Keys THEN url[1]
  ELSE IF Len(url) = 2 /\ url[1] = "dat://" /\ url[2] \in Keys THEN url[2]
  ELSE NoKey

Alice == <<"alice">>
Bob == <<"bob">>
Labels == {Alice, Bob}

Owner(label, url, isDefault, isTemporary) ==
  [label |-> label, url |-> url, isDefault |-> isDefault, isTemporary |-> isTemporary]

\* the users the user directory may hold (labels are unique within a list)
OwnerPool ==
  { Owner(Alice, UrlA, TRUE, FALSE),
    Owner(Alice, UrlB, FALSE, FALSE),
    Owner(Bob, UrlB, TRUE, FALSE),
    Owner(Bob, UrlBad, FALSE, FALSE),
    Owner(Bob, UrlARaw, TRUE, TRUE) }

NoUser == Owner(<<>>, <<>>, FALSE, FALSE)

\* the lists users.setup() may return
UserLists ==
  { <<>>,
    <<Owner(Alice, UrlA, TRUE, FALSE), Owner(Bob, UrlB, TRUE, FALSE)>>,
    <<Owner(Alice, UrlA, TRUE, FALSE)>>,
    <<Owner(Bob, UrlBad, FALSE, FALSE), Owner(Alice, UrlA, TRUE, FALSE)>>,
    <<Owner(Bob, UrlARaw, TRUE, TRUE), Owner(Alice, UrlB, FALSE, FALSE)>> }

\* titles handed to addToLibrary ("?" is a character slugify removes)
Titles == { <<"A", " ", "?">>, <<>>, <<" ">>, <<"a", "-", "2">>, <<"?">> }
LibraryUrls == {UrlA, UrlB}

\* ---------------------------------------------------------------- name allocation
\* line 194: slugify((title || '').trim() || 'untitled').toLowerCase()
Basename(title) ==
  ToLowerCase(slugify(IF Trim(title) = <<>> THEN <<"untitled">> ELSE Trim(title)))

\* line 196: (i === 1) ? basename : `${basename}-${i}`
CandidateName(basename, i) ==
  IF i = 1 THEN basename ELSE basename \o <<"-", NumStr(i)>>

\* ---------------------------------------------------------------- filesystem
FixedDirs ==
  << PATHS_DATA,
     PATHS_DATA_NS(<<"unwalled.garden">>),
     joinPath(PATHS_DATA_NS(<<"unwalled.garden">>), <<"bookmarks">>),
     PATHS_LIBRARY,
     PATHS_SETTINGS,
     PATHS_USERS >>

LibraryPaths ==
  { joinPath(PATHS_LIBRARY, CandidateName(Basename(t), i)) :
      t \in Titles, i \in 1..(MaxCounter - 1) }

AllPaths ==
  { FixedDirs[k] : k \in 1..Len(FixedDirs) } \cup {PATHS_DEFAULT_USER}
  \cup { PATHS_USER(l) : l \in Labels } \cup LibraryPaths

Absent == [kind |-> "absent", key |-> NoKey]
Plain == [kind |-> "plain", key |-> NoKey]
Dir == [kind |-> "dir", key |-> NoKey]
Mount(key) == [kind |-> "mount", key |-> key]
Nodes == {Absent, Plain, Dir} \cup { Mount(k) : k \in Keys }

EmptyFs == [p \in AllPaths |-> Absent]

ParentIsDir(f, path) ==
  \/ Parent(path) = RootPath
  \/ Parent(path) \in AllPaths /\ f[Parent(path)].kind = "dir"

Children(f, dir) == { p \in AllPaths : p # dir /\ Parent(p) = dir /\ f[p].kind # "absent" }

\* pda.mkdir and pda.mount refuse an occupied path and a missing parent folder,
\* pda.readdir refuses what is no folder, pda.unmount finds nothing to remove
\* where there is no node
CanCreate(f, path) == f[path].kind = "absent" /\ ParentIsDir(f, path)
CanUnmount(f, path) == f[path].kind # "absent"
CanReaddir(f, path) == f[path].kind = "dir"

\* Stat.isDirectory()
isDirectory(st) == st.kind = "dir"

\* ---------------------------------------------------------------- decisions
Item(kind, path, url) == [kind |-> kind, path |-> path, url |-> url]

\* ensureDir without the probe's verdict: mkdir whatever is there
ensureDirNext_Always(st) == "mkdir"

\* ensureDir, lines 141-146: what follows the probe
ensureDirNext(st) ==
  IF st.kind = "absent" THEN "mkdir"
  ELSE IF ~isDirectory(st) THEN "conflict"
  ELSE "skip"

\* ensureMount without the comparison of line 161: a mount is left as it is
ensureMountNext_KeepOld(st, key) ==
  IF st.kind = "absent" THEN "mount"
  ELSE IF st.kind = "mount" THEN "skip"
  ELSE "conflict"

\* ensureMount without the test of line 160: whatever is there is replaced
ensureMountNext_Replace(st, key) ==
  IF st.kind = "absent" THEN "mount"
  ELSE IF st.kind = "mount" /\ st.key = key THEN "skip"
  ELSE "reassign"

\* ensureMount rebinding every mount it finds, the one of the wanted key too
ensureMountNext_Remount(st, key) ==
  IF st.kind = "absent" THEN "mount"
  ELSE IF st.kind = "mount" THEN "reassign"
  ELSE "conflict"

\* ensureMount, lines 156-169: what follows the probe and the resolution
ensureMountNext(st, key) ==
  IF st.kind = "absent" THEN "mount"
  ELSE IF st.kind = "mount" THEN (IF st.key # key THEN "reassign" ELSE "skip")
  ELSE "conflict"

\* ensureMount leaving the path unmounted once the old mount is detached
AfterDetach_Stop(todo) == IF todo # <<>> THEN "next" ELSE "idle"

\* ensureMount, lines 164-165: the mount of the new key follows the unmount
AfterDetach(todo) == "em_mount"

\* ensureMount going on with whatever the resolution gave
ResolveFails_Never(key) == FALSE

\* ensureMount, line 155: fromURLToKey throws, and the catch of line 170 ends
\* the call
ResolveFails(key) == key = NoKey

\* ensureUnmount, line 178
ensureUnmountNext(st) ==
  IF st.kind # "absent" /\ st.kind = "mount" THEN "unmount" ELSE "skip"

\* setup without line 77: the alias of the default user is not ensured
SetupUserItems_NoAlias(user) ==
  IF ~user.isTemporary
  THEN <<Item("mount", PATHS_USER(user.label), user.url)>> ELSE <<>>

\* setup, lines 77-80: the mounts ensured for one user of the list
SetupUserItems(user) ==
  (IF user.isDefault THEN <<Item("mount", PATHS_DEFAULT_USER, user.url)>> ELSE <<>>)
  \o (IF ~user.isTemporary
      THEN <<Item("mount", PATHS_USER(user.label), user.url)>> ELSE <<>>)

RECURSIVE SetupMountItems(_)
SetupMountItems(userList) ==
  IF userList = <<>> THEN <<>>
  ELSE SetupUserItems(Head(userList)) \o SetupMountItems(Tail(userList))

\* setup, lines 68-75: the directories ensured, in order
SetupDirItems == [k \in 1..Len(FixedDirs) |-> Item("dir", FixedDirs[k], <<>>)]

\* addUser, lines 108-109
AddUserItems(user) ==
  <<Item("mount", PATHS_USER(user.label), user.url)>>
  \o (IF user.isDefault THEN <<Item("mount", PATHS_DEFAULT_USER, user.url)>> ELSE <<>>)

\* removeUser, line 117
RemoveUserItems(user) == <<Item("unmount", PATHS_USER(user.label), <<>>)>>

\* addToLibrary, line 127
LibraryItems(name, url) == <<Item("mount", joinPath(PATHS_LIBRARY, name), url)>>

\* the sweep with a find that never matches
FindLabel_Never(userList, filename) == FALSE

\* setup, line 86: userList.find(u => u.label === filename)
FindLabel(userList, filename) ==
  \E k \in 1..Len(userList) : userList[k].label = filename

\* setup, lines 85-86: the entries the loop passes over without a storage call
RECURSIVE NextStale(_, _)
NextStale(names, userList) ==
  IF names = <<>> THEN <<>>
  ELSE IF FindLabel(userList, Head(names)) THEN NextStale(Tail(names), userList)
  ELSE names

\* the loop of getAvailableName ending one turn early
CounterInRange_Short(i) == i < MaxCounter - 1

\* getAvailableName, line 195: the loop goes on while i < 1e9
CounterInRange(i) == i < MaxCounter

\* setup creating a root archive whatever the profile record holds
NeedsRoot_Always(url) == TRUE

\* setup, line 51: if (!browsingProfile.url)
NeedsRoot(url) == url = 0

\* setup without its try block
SetupTry_None(p) == FALSE

\* setup, lines 66-100: the awaits an error of which the try block catches
\* (lines 50-62 stand before it)
SetupTry(p) == p \in {"next", "s_readdir", "s_stat", "s_unmount"}

\* ---------------------------------------------------------------- state
VARIABLES
  fs,              \* the root archive's namespace: path -> node
  profileUrl,      \* profiles.url of the profile record store (0: none)
  browsingProfile, \* global of the module: the url of the loaded record
  rootArchive,     \* global of the module: the loaded archive (0: none)
  archives,        \* root archives created so far
  pc,              \* where the running handler stands ("idle": none runs)
  call,            \* the handler that runs, or ran last, and its arguments
  loc,             \* the locals of the running handler
  fs0,             \* fs when the call started
  log,             \* what the call did: <<"mkdir" | "mount" | "unmount" | "readdir", path>>
                   \* for a storage call issued, <<"create", <<>>>> for a root
                   \* archive created, <<"conflict", path>>, and
                   \* <<"error", call, path>> for a call that raised an error
  threw,           \* the call ended by throwing to its caller
  nfail, ncalls, nwrites,
  other            \* the call that is suspended at an await while another runs:
                   \* its pc, call, loc, fs0, log and threw (none: NoOther)

vars == <<fs, profileUrl, browsingProfile, rootArchive, archives, pc, call, loc,
          fs0, log, threw, nfail, ncalls, nwrites, other>>

globals == <<profileUrl, browsingProfile, rootArchive, archives>>

\* users, listed: the list users.setup() returned, once it has
\* again: the call repeats the call before it (same handler, same arguments)
\*   and nothing else wrote to the archive in between; clean: that call met
\*   no error; prevLog: its log
\* nth: the call is the nth addToLibrary in a row with this title, the first
\*   of them having found the library directory empty (0: it is not)
NoCall ==
  [h |-> "none", users |-> <<>>, listed |-> FALSE, user |-> NoUser, url |-> <<>>,
   title |-> <<>>, path |-> <<>>, again |-> FALSE, clean |-> FALSE, prevLog |-> {},
   nth |-> 0]

NoName == <<"(none)">>
NoList == <<NoUser>>

InitLoc ==
  [todo |-> <<>>, item |-> Item("none", <<>>, <<>>), key |-> NoKey, i |-> 0,
   name |-> NoName, usersFilenames |-> <<>>, archive |-> 0, prevUsers |-> NoList]

\* mixed: control passed between the two calls while one was under way
NoOther ==
  [pc |-> "idle", call |-> NoCall, loc |-> InitLoc, fs0 |-> EmptyFs, log |-> {},
   threw |-> FALSE, mixed |-> FALSE]

Failed == \E e \in log : e[1] = "error"

\* the namespace a pass of setup without error builds in an empty archive
RECURSIVE Apply(_, _)
Apply(f, items) ==
  IF items = <<>> THEN f
  ELSE LET it == Head(items)
       IN Apply([f EXCEPT ![it.path] = IF it.kind = "dir" THEN Dir
                                      ELSE Mount(fromURLToKey(it.url))],
                Tail(items))

Layout(userList) == Apply(EmptyFs, SetupDirItems \o SetupMountItems(userList))

Layouts ==
  { Layout(<<>>),
    Layout(<<Owner(Alice, UrlA, TRUE, FALSE), Owner(Bob, UrlB, TRUE, FALSE)>>) }

\* a new profile; a profile of earlier runs when the process starts; the
\* process at work, setup having loaded the archive
Init ==
  /\ \/ fs = EmptyFs /\ profileUrl = 0 /\ browsingProfile = 0 /\ rootArchive = 0
     \/ fs \in Layouts /\ profileUrl = 1 /\ browsingProfile = 0 /\ rootArchive = 0
     \/ fs \in Layouts /\ profileUrl = 1 /\ browsingProfile = 1 /\ rootArchive = 1
  /\ archives = profileUrl
  /\ pc = "idle"
  /\ call = NoCall
  /\ loc = InitLoc
  /\ fs0 = fs
  /\ log = {}
  /\ threw = FALSE
  /\ nfail = 0
  /\ ncalls = 0
  /\ nwrites = 0
  /\ other = NoOther

\* ---------------------------------------------------------------- collaborators
\* a call that can succeed may still fail, within the budget of failures
Outcomes(can) ==
  IF ~can THEN {FALSE} ELSE IF nfail < MaxFail THEN {TRUE, FALSE} ELSE {TRUE}

Charge(can, ok) == IF can /\ ~ok THEN nfail + 1 ELSE nfail

\* pda.unmount(path): the entry of a mount is removed, unless the call fails;
\* whether the engine refuses the entry of a file or a folder, or removes it
\* too, is left open
UnmountOutcomes(path) ==
  IF fs[path].kind = "mount" THEN Outcomes(TRUE)
  ELSE IF CanUnmount(fs, path) THEN {TRUE, FALSE} ELSE {FALSE}

UnmountCharge(path, ok) == Charge(fs[path].kind = "mount", ok)

\* stat, lines 133-136: every error of pda.stat, "not found" included, gives null
\* (the absent node)
stat(path, ok) == IF ok THEN fs[path] ELSE Absent

Present(path) == fs[path].kind # "absent"

ChildNames(dir) == { p[Len(p)] : p \in Children(fs, dir) }

Orders(S) ==
  { q \in [1..Cardinality(S) -> S] : \A a, b \in 1..Cardinality(S) : a # b => q[a] # q[b] }

Error(op, path) == <<"error", op, path>>

\* where a handler goes on once an item of its list is done
After(todo) ==
  IF todo # <<>> THEN "next" ELSE IF call.h = "setup" THEN "s_readdir" ELSE "idle"

\* the error of an item leaving the handler's loop instead
CatchItem_Propagate(todo) == "idle"

\* lines 147, 170, 183: ensureDir, ensureMount and ensureUnmount catch the
\* error of their own awaits, and the handler goes on with what follows
CatchItem(todo) == After(todo)

\* the locals are dead once the handler has returned; the allocated name is kept
Goto(p, l) ==
  /\ pc' = p
  /\ loc' = IF p = "idle" THEN [InitLoc EXCEPT !.name = l.name] ELSE l

ItemDone(l) == [l EXCEPT !.item = InitLoc.item, !.key = NoKey]

StartCall(c, p, l) ==
  /\ pc = "idle"
  /\ ncalls < MaxCalls
  /\ pc' = p
  /\ LET same == /\ call.h = c.h /\ call.user = c.user /\ call.url = c.url
                 /\ call.title = c.title /\ call.path = c.path
     IN /\ call' = [c EXCEPT !.again = same, !.clean = same /\ ~Failed /\ ~threw,
                             !.prevLog = IF same THEN log ELSE {}]
        /\ loc' = [l EXCEPT !.prevUsers = IF same /\ call.listed THEN call.users ELSE NoList]
  /\ fs0' = fs
  /\ log' = {}
  /\ threw' = FALSE
  /\ ncalls' = ncalls + 1
  /\ UNCHANGED <<fs, globals, nfail, nwrites, other>>

\* an error of an await of setup: caught by the try block of lines 66-100, or
\* thrown to the caller of setup
Raise ==
  /\ Goto("idle", loc)
  /\ threw' = ~SetupTry(pc)

\* ---------------------------------------------------------------- the handlers' calls
\* setup(), line 46 (trash.setup() of line 47 is outside this module)
CallSetup ==
  \E c \in {[NoCall EXCEPT !.h = "setup"]} : StartCall(c, "s_get", InitLoc)

\* addUser(user), line 107; the callers wait for setup to have loaded the archive
CallAddUser ==
  \E u \in OwnerPool :
    /\ rootArchive # 0
    /\ StartCall([NoCall EXCEPT !.h = "addUser", !.user = u], "next",
                 [InitLoc EXCEPT !.todo = AddUserItems(u)])

\* removeUser(user), line 116
CallRemoveUser ==
  \E u \in OwnerPool :
    /\ rootArchive # 0
    /\ StartCall([NoCall EXCEPT !.h = "removeUser", !.user = u], "next",
                 [InitLoc EXCEPT !.todo = RemoveUserItems(u)])

\* addToLibrary(url, title), line 125
CallAddToLibrary ==
  \E u \in LibraryUrls, t \in Titles :
    /\ rootArchive # 0
    /\ StartCall([NoCall EXCEPT !.h = "addToLibrary", !.url = u, !.title = t,
                    !.nth = IF Children(fs, PATHS_LIBRARY) = {} THEN 1
                            ELSE IF call.h = "addToLibrary" /\ call.title = t /\ call.nth > 0
                            THEN call.nth + 1 ELSE 0],
                 "gan", [InitLoc EXCEPT !.i = 1])

\* ensureDir(path), line 138, called on its own
CallEnsureDir ==
  \E k \in 1..Len(FixedDirs) :
    /\ rootArchive # 0
    /\ StartCall([NoCall EXCEPT !.h = "ensureDir", !.path = FixedDirs[k]], "next",
                 [InitLoc EXCEPT !.todo = <<Item("dir", FixedDirs[k], <<>>)>>])

\* ---------------------------------------------------------------- setup, lines 50-62
\* line 50: browsingProfile = await db.get(...)
DbGet ==
  /\ pc = "s_get"
  /\ \E ok \in Outcomes(TRUE) :
       /\ nfail' = Charge(TRUE, ok)
       /\ IF ok
          THEN /\ browsingProfile' = profileUrl
               /\ Goto(IF NeedsRoot(profileUrl) THEN "s_create" ELSE "s_load", loc)
               /\ UNCHANGED <<threw, log>>
          ELSE /\ Raise
               /\ log' = log \cup {Error("get", RootPath)}
               /\ UNCHANGED browsingProfile
  /\ UNCHANGED <<fs, profileUrl, rootArchive, archives, call, fs0, ncalls, nwrites, other>>

\* line 52: archive = await dat.archives.createNewRootArchive()
CreateRoot ==
  /\ pc = "s_create"
  /\ \E ok \in Outcomes(TRUE) :
       /\ nfail' = Charge(TRUE, ok)
       /\ IF ok
          THEN /\ archives' = archives + 1
               /\ Goto("s_run", [loc EXCEPT !.archive = archives + 1])
               /\ log' = log \cup {<<"create", RootPath>>}
               /\ UNCHANGED threw
          ELSE /\ Raise
               /\ log' = log \cup {Error("create", RootPath)}
               /\ UNCHANGED archives
  /\ UNCHANGED <<fs, profileUrl, browsingProfile, rootArchive, call, fs0, ncalls, nwrites, other>>

\* lines 54-55: await db.run(UPDATE ...); browsingProfile.url = archive.url
DbRun ==
  /\ pc = "s_run"
  /\ \E ok \in Outcomes(TRUE) :
       /\ nfail' = Charge(TRUE, ok)
       /\ IF ok
          THEN /\ profileUrl' = loc.archive
               /\ browsingProfile' = loc.archive
               /\ Goto("s_load", loc)
               /\ UNCHANGED <<threw, log>>
          ELSE /\ Raise
               /\ log' = log \cup {Error("run", RootPath)}
               /\ UNCHANGED <<profileUrl, browsingProfile>>
  /\ UNCHANGED <<fs, rootArchive, archives, call, fs0, ncalls, nwrites, other>>

\* line 59: rootArchive = await dat.archives.getOrLoadArchive(browsingProfile.url)
LoadRoot ==
  /\ pc = "s_load"
  /\ \E ok \in Outcomes(TRUE) :
       /\ nfail' = Charge(TRUE, ok)
       /\ IF ok
          THEN /\ rootArchive' = browsingProfile
               /\ Goto("s_users", loc)
               /\ UNCHANGED <<threw, log>>
          ELSE /\ Raise
               /\ log' = log \cup {Error("load", RootPath)}
               /\ UNCHANGED rootArchive
  /\ UNCHANGED <<fs, profileUrl, browsingProfile, archives, call, fs0, ncalls, nwrites, other>>

\* line 62: userList = await users.setup(); lines 68-81 are the list of work it fixes
UsersSetup ==
  /\ pc = "s_users"
  /\ \E ok \in Outcomes(TRUE) :
       /\ nfail' = Charge(TRUE, ok)
       /\ IF ok
          THEN \E userList \in UserLists :
                 /\ call' = [call EXCEPT !.users = userList, !.listed = TRUE,
                                         !.again = call.again /\ loc.prevUsers = userList]
                 /\ Goto("next", [loc EXCEPT !.todo = SetupDirItems \o SetupMountItems(userList)])
                 /\ UNCHANGED <<threw, log>>
          ELSE /\ Raise
               /\ log' = log \cup {Error("users", RootPath)}
               /\ UNCHANGED call
  /\ UNCHANGED <<fs, globals, fs0, ncalls, nwrites, other>>

\* ---------------------------------------------------------------- ensureDir, ensureMount, ensureUnmount
\* the probe that opens ensureDir (140), ensureMount (154-155, with the
\* resolution of the url, which touches no storage) and ensureUnmount (177)
StatItem ==
  /\ pc = "next"
  /\ LET item == Head(loc.todo)
         rest == Tail(loc.todo)
     IN \E ok \in Outcomes(Present(item.path)) :
          LET st == stat(item.path, ok)
              key == IF item.kind = "mount" THEN fromURLToKey(item.url) ELSE NoKey
              act == IF item.kind = "dir" THEN ensureDirNext(st)
                     ELSE IF item.kind = "unmount" THEN ensureUnmountNext(st)
                     ELSE IF ResolveFails(key) THEN "throw"
                     ELSE ensureMountNext(st, key)
              to == CASE act = "mkdir" -> "ed_mkdir"
                      [] act = "mount" -> "em_mount"
                      [] act = "reassign" -> "em_unmount"
                      [] act = "unmount" -> "eu_unmount"
                      [] act = "throw" -> CatchItem(rest)
                      [] OTHER -> After(rest)
              held == [loc EXCEPT !.todo = rest, !.item = item, !.key = key]
          IN /\ Goto(to, IF act \in {"mkdir", "mount", "reassign", "unmount"}
                         THEN held ELSE ItemDone(held))
             /\ log' = log \cup (IF act = "conflict" THEN {<<"conflict", item.path>>} ELSE {})
                           \cup (IF Present(item.path) /\ ~ok
                                 THEN {Error("stat", item.path)} ELSE {})
                           \cup (IF act = "throw"
                                 THEN {Error("resolve", item.path)} ELSE {})
             /\ nfail' = Charge(Present(item.path), ok)
  /\ UNCHANGED <<fs, globals, call, fs0, threw, ncalls, nwrites, other>>

\* line 143: await rootArchive.pda.mkdir(path); an error is caught at 147
Mkdir ==
  /\ pc = "ed_mkdir"
  /\ LET path == loc.item.path
     IN \E ok \in Outcomes(CanCreate(fs, path)) :
          /\ fs' = IF ok THEN [fs EXCEPT ![path] = Dir] ELSE fs
          /\ log' = log \cup {<<"mkdir", path>>} \cup (IF ok THEN {} ELSE {Error("mkdir", path)})
          /\ nfail' = Charge(CanCreate(fs, path), ok)
          /\ Goto(IF ok THEN After(loc.todo) ELSE CatchItem(loc.todo), ItemDone(loc))
  /\ UNCHANGED <<globals, call, fs0, threw, ncalls, nwrites, other>>

\* lines 159 and 165: await rootArchive.pda.mount(path, key); caught at 170
MountStep ==
  /\ pc = "em_mount"
  /\ LET path == loc.item.path
     IN \E ok \in Outcomes(CanCreate(fs, path)) :
          /\ fs' = IF ok THEN [fs EXCEPT ![path] = Mount(loc.key)] ELSE fs
          /\ log' = log \cup {<<"mount", path>>} \cup (IF ok THEN {} ELSE {Error("mount", path)})
          /\ nfail' = Charge(CanCreate(fs, path), ok)
          /\ Goto(IF ok THEN After(loc.todo) ELSE CatchItem(loc.todo), ItemDone(loc))
  /\ UNCHANGED <<globals, call, fs0, threw, ncalls, nwrites, other>>

\* line 164: await rootArchive.pda.unmount(path), before the mount of line 165
ReassignUnmount ==
  /\ pc = "em_unmount"
  /\ LET path == loc.item.path
     IN \E ok \in UnmountOutcomes(path) :
          /\ fs' = IF ok THEN [fs EXCEPT ![path] = Absent] ELSE fs
          /\ log' = log \cup {<<"unmount", path>>} \cup (IF ok THEN {} ELSE {Error("unmount", path)})
          /\ nfail' = UnmountCharge(path, ok)
          /\ IF ok
             THEN Goto(AfterDetach(loc.todo),
                       IF AfterDetach(loc.todo) = "em_mount" THEN loc ELSE ItemDone(loc))
             ELSE Goto(CatchItem(loc.todo), ItemDone(loc))
  /\ UNCHANGED <<globals, call, fs0, threw, ncalls, nwrites, other>>

\* line 181: await rootArchive.pda.unmount(path); caught at 183
UnmountStep ==
  /\ pc = "eu_unmount"
  /\ LET path == loc.item.path
     IN \E ok \in UnmountOutcomes(path) :
          /\ fs' = IF ok THEN [fs EXCEPT ![path] = Absent] ELSE fs
          /\ log' = log \cup {<<"unmount", path>>} \cup (IF ok THEN {} ELSE {Error("unmount", path)})
          /\ nfail' = UnmountCharge(path, ok)
          /\ Goto(IF ok THEN After(loc.todo) ELSE CatchItem(loc.todo), ItemDone(loc))
  /\ UNCHANGED <<globals, call, fs0, threw, ncalls, nwrites, other>>

\* ---------------------------------------------------------------- getAvailableName
\* lines 195-201: one turn of the loop; the error of line 201 is thrown to
\* the caller of addToLibrary
ProbeName ==
  /\ pc = "gan"
  /\ LET name == CandidateName(Basename(call.title), loc.i)
         path == joinPath(PATHS_LIBRARY, name)
     IN \E ok \in Outcomes(Present(path)) :
          LET st == stat(path, ok)
          IN /\ log' = log \cup (IF Present(path) /\ ~ok THEN {Error("stat", path)} ELSE {})
             /\ nfail' = Charge(Present(path), ok)
             /\ IF st.kind = "absent"
                THEN /\ Goto("next", [loc EXCEPT !.name = name,
                                                 !.todo = LibraryItems(name, call.url)])
                     /\ UNCHANGED threw
                ELSE IF CounterInRange(loc.i + 1)
                THEN /\ Goto("gan", [loc EXCEPT !.i = loc.i + 1])
                     /\ UNCHANGED threw
                ELSE /\ Goto("idle", loc)
                     /\ threw' = TRUE
  /\ UNCHANGED <<fs, globals, call, fs0, ncalls, nwrites, other>>

\* ---------------------------------------------------------------- setup, lines 83-100
SweepGoto(names, l) ==
  LET left == NextStale(names, call.users)
  IN Goto(IF left = <<>> THEN "idle" ELSE "s_stat", [l EXCEPT !.usersFilenames = left])

\* line 84: usersFilenames = await rootArchive.pda.readdir(PATHS.USERS)
Readdir ==
  /\ pc = "s_readdir"
  /\ \E ok \in Outcomes(CanReaddir(fs, PATHS_USERS)) :
       /\ log' = log \cup {<<"readdir", PATHS_USERS>>}
                     \cup (IF ok THEN {} ELSE {Error("readdir", PATHS_USERS)})
       /\ nfail' = Charge(CanReaddir(fs, PATHS_USERS), ok)
       /\ IF ok
          THEN /\ \E names \in Orders(ChildNames(PATHS_USERS)) : SweepGoto(names, loc)
               /\ UNCHANGED threw
          ELSE Raise
  /\ UNCHANGED <<fs, globals, call, fs0, ncalls, nwrites, other>>

\* lines 87-89: st = await stat(path) of an entry no user of the list is named after
SweepStat ==
  /\ pc = "s_stat"
  /\ LET path == PATHS_USER(Head(loc.usersFilenames))
     IN \E ok \in Outcomes(Present(path)) :
          LET st == stat(path, ok)
          IN /\ log' = log \cup (IF Present(path) /\ ~ok THEN {Error("stat", path)} ELSE {})
             /\ nfail' = Charge(Present(path), ok)
             /\ IF st.kind # "absent" /\ st.kind = "mount"
                THEN Goto("s_unmount", loc)
                ELSE SweepGoto(Tail(loc.usersFilenames), loc)
  /\ UNCHANGED <<fs, globals, call, fs0, threw, ncalls, nwrites, other>>

\* line 91: await rootArchive.pda.unmount(path); an error ends the try block (97)
SweepUnmount ==
  /\ pc = "s_unmount"
  /\ LET path == PATHS_USER(Head(loc.usersFilenames))
     IN \E ok \in UnmountOutcomes(path) :
          /\ fs' = IF ok THEN [fs EXCEPT ![path] = Absent] ELSE fs
          /\ log' = log \cup {<<"unmount", path>>} \cup (IF ok THEN {} ELSE {Error("unmount", path)})
          /\ nfail' = UnmountCharge(path, ok)
          /\ IF ok
             THEN /\ SweepGoto(Tail(loc.usersFilenames), loc)
                  /\ UNCHANGED threw
             ELSE Raise
  /\ UNCHANGED <<globals, call, fs0, ncalls, nwrites, other>>

\* ---------------------------------------------------------------- the archive's other writers
\* the root archive is the user's own: between two calls anything may create a
\* node where there is none, or remove a node that has no children
ExternalWrite ==
  /\ pc = "idle"
  /\ profileUrl # 0
  /\ nwrites < MaxExt
  /\ \E path \in AllPaths, node \in Nodes :
       /\ IF node = Absent
          THEN Present(path) /\ Children(fs, path) = {}
          ELSE CanCreate(fs, path)
       /\ fs' = [fs EXCEPT ![path] = node]
  /\ fs0' = fs'
  /\ call' = NoCall
  /\ loc' = InitLoc
  /\ log' = {}
  /\ threw' = FALSE
  /\ nwrites' = nwrites + 1
  /\ UNCHANGED <<globals, pc, nfail, ncalls, other>>

\* ---------------------------------------------------------------- specification
Next ==
  \/ CallSetup
  \/ CallAddUser
  \/ CallRemoveUser
  \/ CallAddToLibrary
  \/ CallEnsureDir
  \/ DbGet
  \/ CreateRoot
  \/ DbRun
  \/ LoadRoot
  \/ UsersSetup
  \/ StatItem
  \/ Mkdir
  \/ MountStep
  \/ ReassignUnmount
  \/ UnmountStep
  \/ ProbeName
  \/ Readdir
  \/ SweepStat
  \/ SweepUnmount
  \/ ExternalWrite

Spec == Init /\ [][Next]_vars

\* ---------------------------------------------------------------- two calls in flight
\* addToLibrary is async: while one call waits at an await the event loop may
\* run another call up to its next await.  Two addToLibrary calls are pending;
\* the steps of the one that runs are the steps above, and Yield passes
\* control to the other one.
LibraryCall(u, t) == [NoCall EXCEPT !.h = "addToLibrary", !.url = u, !.title = t]

InitRace ==
  /\ fs \in Layouts
  /\ profileUrl = 1 /\ browsingProfile = 1 /\ rootArchive = 1 /\ archives = 1
  /\ \E u \in LibraryUrls, t \in Titles :
       call = LibraryCall(u, t)
  /\ \E u \in LibraryUrls, t \in Titles :
       other = [NoOther EXCEPT !.pc = "gan", !.call = LibraryCall(u, t),
                               !.loc = [InitLoc EXCEPT !.i = 1], !.fs0 = fs]
  /\ pc = "gan"
  /\ loc = [InitLoc EXCEPT !.i = 1]
  /\ fs0 = fs
  /\ log = {}
  /\ threw = FALSE
  /\ nfail = 0
  /\ ncalls = MaxCalls
  /\ nwrites = 0

\* the running call has passed its first await
Started == ~(pc = "gan" /\ loc.i = 1)

\* the running call is suspended at its await, or has returned, and the other
\* call goes on from where it stood
Yield ==
  /\ other.pc # "idle"
  /\ Started
  /\ pc' = other.pc
  /\ call' = other.call
  /\ loc' = other.loc
  /\ fs0' = other.fs0
  /\ log' = other.log
  /\ threw' = other.threw
  /\ other' = [pc |-> pc, call |-> call, loc |-> loc, fs0 |-> fs0, log |-> log,
               threw |-> threw, mixed |-> other.mixed \/ pc # "idle"]
  /\ UNCHANGED <<fs, globals, nfail, ncalls, nwrites>>

NextRace ==
  \/ ProbeName
  \/ StatItem
  \/ MountStep
  \/ ReassignUnmount
  \/ Yield

SpecRace == InitRace /\ [][NextRace]_vars

\* ---------------------------------------------------------------- properties
Done(h) == pc = "idle" /\ call.h = h
Issued(op, path) == <<op, path>> \in log
Touched(path) == Issued("mount", path) \/ Issued("unmount", path)
UserIdx == 1..Len(call.users)
LabelsOf(userList) == { userList[k].label : k \in 1..Len(userList) }
KeyOf(user) == fromURLToKey(user.url)
Items(seq) == { seq[k] : k \in 1..Len(seq) }

\* no path setup wants a mount at held a file or a folder when setup began
NoConflictAtStart ==
  \A it \in Items(SetupMountItems(call.users)) : fs0[it.path].kind \in {"absent", "mount"}

SetupConverged == Done("setup") /\ ~Failed /\ NoConflictAtStart

OwnerPathsBound ==
  \A k \in UserIdx :
    ~call.users[k].isTemporary
      => fs[PATHS_USER(call.users[k].label)] = Mount(KeyOf(call.users[k]))

\* C1: after a setup() in which nothing failed and no wanted mount path held a
\* non-mount node, every non-temporary Owner's path is a mount bound to its
\* address, and the alias path is a mount bound to the address of the Owner
\* flagged default (of the last one flagged, should the list flag several:
\* the loop at lines 76-81 rebinds the alias for each in turn)
C1_Convergence ==
  SetupConverged
    => /\ OwnerPathsBound
       /\ \A k \in UserIdx :
            (call.users[k].isDefault /\ \A j \in UserIdx : j > k => ~call.users[j].isDefault)
              => fs[PATHS_DEFAULT_USER] = Mount(KeyOf(call.users[k]))

C1_Witness ==
  /\ SetupConverged
  /\ \E k \in UserIdx :
       /\ ~call.users[k].isTemporary
       /\ fs0[PATHS_USER(call.users[k].label)] # fs[PATHS_USER(call.users[k].label)]
  /\ \E k \in UserIdx : call.users[k].isDefault
  /\ fs0[PATHS_DEFAULT_USER] # fs[PATHS_DEFAULT_USER]

StalePruned ==
  \A l \in Labels :
    (fs0[PATHS_USER(l)].kind = "mount" /\ l \notin LabelsOf(call.users))
      => fs[PATHS_USER(l)].kind # "mount"

KeptUntouched ==
  \A k \in UserIdx :
    LET path == PATHS_USER(call.users[k].label)
    IN (fs0[path].kind = "mount" /\ fs0[path].key = KeyOf(call.users[k]))
         => fs[path] = fs0[path] /\ ~Touched(path)

\* C3, as stated: after a setup() pass the mount of an Owner that is not in the
\* list is gone, and the mount of an Owner that is in the list is as it was,
\* no mount or unmount having been issued on it
C3_Original == (Done("setup") /\ call.listed) => (StalePruned /\ KeptUntouched)

\* C3, amended: ... after a setup() pass in which no operation failed
C3_StalePruning == (Done("setup") /\ ~Failed) => (StalePruned /\ KeptUntouched)

C3_Witness ==
  /\ Done("setup")
  /\ ~Failed
  /\ \E l \in Labels :
       /\ fs0[PATHS_USER(l)].kind = "mount"
       /\ l \notin LabelsOf(call.users)
       /\ Issued("unmount", PATHS_USER(l))
  /\ \E k \in UserIdx :
       /\ fs0[PATHS_USER(call.users[k].label)].kind = "mount"
       /\ fs0[PATHS_USER(call.users[k].label)].key = KeyOf(call.users[k])

Reassigned(user) ==
  LET path == PATHS_USER(user.label)
  IN (fs0[path].kind = "mount" /\ KeyOf(user) # NoKey /\ fs0[path].key # KeyOf(user))
       => fs[path] = Mount(KeyOf(user))

\* C4, as stated: a pass (setup, or ensureMount on the path through addUser)
\* over an Owner's path that is a mount bound to another key than the Owner's
\* leaves the path a mount bound to the Owner's key
C4_Original ==
  /\ (Done("setup") /\ call.listed)
       => \A k \in UserIdx : ~call.users[k].isTemporary => Reassigned(call.users[k])
  /\ Done("addUser") => Reassigned(call.user)

\* C4, amended: ... a pass in which no operation failed ...
C4_Reassignment ==
  /\ (Done("setup") /\ ~Failed)
       => \A k \in UserIdx : ~call.users[k].isTemporary => Reassigned(call.users[k])
  /\ (Done("addUser") /\ ~Failed) => Reassigned(call.user)

C4_Witness ==
  /\ Done("addUser")
  /\ ~Failed
  /\ fs0[PATHS_USER(call.user.label)].kind = "mount"
  /\ fs0[PATHS_USER(call.user.label)].key # KeyOf(call.user)
  /\ fs[PATHS_USER(call.user.label)] = Mount(KeyOf(call.user))
  /\ Issued("unmount", PATHS_USER(call.user.label))

C6_Original ==
  (Done("ensureDir") /\ call.again) => (fs = fs0 /\ ~Issued("mkdir", call.path))

\* C6, amended: ... when no storage operation failed in the first call and
\* the probe of the second call did not fail
C6_Idempotence ==
  (Done("ensureDir") /\ call.again /\ call.clean /\ Error("stat", call.path) \notin log)
    => (fs = fs0 /\ ~Issued("mkdir", call.path))

C6_Witness ==
  /\ Done("ensureDir")
  /\ call.again
  /\ call.clean
  /\ ~Failed
  /\ <<"mkdir", call.path>> \in call.prevLog
  /\ fs[call.path] = Dir

\* C7: the nth addToLibrary in a row with one title, the first having found
\* the library directory empty, is allocated slug for n = 1 and slug-n for
\* n >= 2 (n below the counter ceiling), slug being the slug of the title, and
\* "untitled" the base name of an empty or whitespace-only title; stated for
\* the runs in which no storage operation fails
C7_NameAllocation ==
  (Done("addToLibrary") /\ call.nth >= 1 /\ call.nth < MaxCounter /\ ~Failed)
    => /\ ~threw
       /\ loc.name = CandidateName(Basename(call.title), call.nth)
       /\ Trim(call.title) = <<>> => loc.name = CandidateName(<<"untitled">>, call.nth)

Candidates(title) ==
  { CandidateName(Basename(title), i) : i \in 1..(MaxCounter - 1) }

StorageCalls == { e \in log : e[1] \in {"mkdir", "mount", "unmount", "readdir"} }

\* C8: the loop of getAvailableName stays below the counter ceiling;
\* addToLibrary ends either with one of the candidate names allocated, or by
\* throwing, and it throws only when every candidate was occupied, having
\* issued no storage call and changed nothing; with every candidate occupied
\* and no probe failing it throws; addUser and removeUser never throw
C8_Allocation ==
  /\ pc = "gan" => loc.i \in 1..(MaxCounter - 1)
  /\ (Done("addUser") \/ Done("removeUser")) => ~threw
  /\ (Done("addToLibrary") /\ ~threw) => loc.name \in Candidates(call.title)
  /\ (Done("addToLibrary") /\ threw)
       => /\ \A n \in Candidates(call.title) :
               fs0[joinPath(PATHS_LIBRARY, n)].kind # "absent"
          /\ StorageCalls = {}
          /\ fs = fs0
  /\ ( /\ Done("addToLibrary")
       /\ ~Failed
       /\ \A n \in Candidates(call.title) : fs0[joinPath(PATHS_LIBRARY, n)].kind # "absent" )
       => threw

C8_Witness ==
  /\ Done("addToLibrary")
  /\ threw
  /\ Basename(call.title) # <<>>

MountCalls == { e \in log : e[1] \in {"mount", "unmount"} }

\* C9: nothing is mounted or unmounted on behalf of a temporary Owner: addUser
\* of a temporary Owner issues no mount and no unmount; setup issues none at
\* the path of a temporary Owner of the list, and none at the alias path when
\* the only Owner flagged default is temporary
C9_TemporaryExcluded ==
  /\ (Done("addUser") /\ call.user.isTemporary) => MountCalls = {}
  /\ (Done("setup") /\ call.listed)
       => \A k \in UserIdx :
            call.users[k].isTemporary
              => /\ ~Touched(PATHS_USER(call.users[k].label))
                 /\ (/\ call.users[k].isDefault
                     /\ \A j \in UserIdx : call.users[j].isDefault => j = k)
                      => ~Touched(PATHS_DEFAULT_USER)

ErroredAt(path) == \E e \in log : e[1] = "error" /\ e[3] = path

\* the calls made for the user's own mount went through, and found no file
\* or folder in the way
OwnCallsSucceed(user) ==
  /\ ~ErroredAt(PATHS_USER(user.label))
  /\ ~Issued("conflict", PATHS_USER(user.label))

\* C10: whatever fails while setup() ensures the mount of one Owner, setup
\* goes on: every non-temporary Owner whose own calls succeed ends with its
\* path mounted to its address, the sweep runs (readdir is issued) and setup
\* does not throw
C10_Isolation ==
  (Done("setup") /\ call.listed)
    => /\ ~threw
       /\ Issued("readdir", PATHS_USERS)
       /\ \A k \in UserIdx :
            (~call.users[k].isTemporary /\ OwnCallsSucceed(call.users[k]))
              => fs[PATHS_USER(call.users[k].label)] = Mount(KeyOf(call.users[k]))

C10_Witness ==
  /\ Done("setup")
  /\ \E j, k \in UserIdx :
       /\ j < k
       /\ \E e \in log :
            /\ e[1] = "error"
            /\ e[2] \in {"resolve", "mount", "unmount"}
            /\ e[3] = PATHS_USER(call.users[j].label)
       /\ ~call.users[k].isTemporary
       /\ Issued("mount", PATHS_USER(call.users[k].label))
       /\ fs[PATHS_USER(call.users[k].label)] = Mount(KeyOf(call.users[k]))

\* C11, as stated: whatever the sequence of setup() runs, one root archive is
\* created at most, and a setup() that returns has one
C11_Original ==
  /\ archives <= 1
  /\ (Done("setup") /\ ~threw) => archives = 1

\* C11, amended: a root archive is created only by a setup() that found no
\* address in the profile record, and the address recorded is the one of the
\* archive just created; once an address is recorded no step creates a root
\* archive or changes the record; a setup() that does not throw leaves an
\* address recorded and the archive of that address loaded
C11_RootOnce ==
  /\ [][ /\ (archives' # archives)
            => (pc = "s_create" /\ profileUrl = 0 /\ archives' = archives + 1)
         /\ (profileUrl' # profileUrl)
            => (pc = "s_run" /\ profileUrl = 0 /\ profileUrl' = archives)
         /\ (profileUrl # 0)
            => (profileUrl' = profileUrl /\ archives' = archives) ]_vars
  /\ []((Done("setup") /\ ~threw) => (profileUrl # 0 /\ rootArchive = profileUrl))

C11_Witness ==
  /\ Done("setup")
  /\ call.again
  /\ <<"create", RootPath>> \in call.prevLog
  /\ call.listed
  /\ profileUrl = 1
  /\ archives = 1

NonTemporaryLabels(userList) ==
  { userList[k].label : k \in { j \in 1..Len(userList) : ~userList[j].isTemporary } }

\* C12: after a setup() pass in which nothing failed, no entry of the owners
\* root named otherwise than a non-temporary Owner of the list is a mount (the
\* mount named after a temporary Owner is gone), and the entries that were
\* files or folders are as they were
C12_SweepLabels ==
  (Done("setup") /\ ~Failed)
    => \A l \in Labels :
         /\ l \notin NonTemporaryLabels(call.users) => fs[PATHS_USER(l)].kind # "mount"
         /\ fs0[PATHS_USER(l)].kind \in {"plain", "dir"} => fs[PATHS_USER(l)] = fs0[PATHS_USER(l)]

\* an entry of the owners root no Owner of the list is named after (line 86)
\* and that was a mount when setup began
StaleMount(l) == l \notin LabelsOf(call.users) /\ fs0[PATHS_USER(l)].kind = "mount"

\* the only calls of the pass that failed are unmounts of stale entries, and
\* one did
OnlySweepUnmountFailed ==
  /\ Failed
  /\ \A e \in log :
       e[1] = "error" => \E l \in Labels : StaleMount(l) /\ e = Error("unmount", PATHS_USER(l))

\* C13: when the unmount of one stale entry fails during the sweep of setup(),
\* every other stale mount entry is still probed and detached
C13_SweepIsolation ==
  (Done("setup") /\ call.listed /\ OnlySweepUnmountFailed)
    => \A l \in Labels :
         (StaleMount(l) /\ ~ErroredAt(PATHS_USER(l))) => fs[PATHS_USER(l)].kind # "mount"

\* addUser found the Owner's path mounted to another key than the Owner's
ReassignNeeded ==
  /\ fs0[PATHS_USER(call.user.label)].kind = "mount"
  /\ KeyOf(call.user) # NoKey
  /\ fs0[PATHS_USER(call.user.label)].key # KeyOf(call.user)

\* C14: a step of this module changes a mounted path only by unmounting it
\* (no step turns the mount of one key into the mount of another), and the
\* mount step binds a path that is absent; a reassignment in which nothing
\* fails issues the unmount and the mount and ends bound to the new key; when
\* the mount fails after the unmount went through the path is left absent; and the same
\* addUser run again, nothing failing this time, ends with the path mounted
\* to the wanted key
C14_DetachThenAttach ==
  /\ [][ \A p \in AllPaths :
           /\ (nwrites' = nwrites /\ fs[p].kind = "mount" /\ fs'[p] # fs[p])
                => (fs'[p] = Absent /\ pc \in {"em_unmount", "eu_unmount", "s_unmount"})
           /\ (pc = "em_mount" /\ fs'[p] # fs[p])
                => (fs[p] = Absent /\ p = loc.item.path /\ fs'[p] = Mount(loc.key)) ]_vars
  /\ [](LET p == PATHS_USER(call.user.label)
        IN /\ (Done("addUser") /\ ReassignNeeded /\ ~Failed)
                => /\ Issued("unmount", p) /\ Issued("mount", p)
                   /\ fs[p] = Mount(KeyOf(call.user))
           /\ ( /\ Done("addUser") /\ ReassignNeeded
                /\ Issued("unmount", p) /\ Error("unmount", p) \notin log
                /\ Error("mount", p) \in log )
                => fs[p] = Absent
           /\ ( /\ Done("addUser") /\ call.again /\ ~Failed
                /\ KeyOf(call.user) # NoKey
                /\ <<"unmount", p>> \in call.prevLog
                /\ Error("unmount", p) \notin call.prevLog
                /\ Error("mount", p) \in call.prevLog )
                => fs[p] = Mount(KeyOf(call.user)))

C14_Witness ==
  /\ Done("addUser")
  /\ call.again
  /\ ~Failed
  /\ <<"unmount", PATHS_USER(call.user.label)>> \in call.prevLog
  /\ Error("mount", PATHS_USER(call.user.label)) \in call.prevLog
  /\ fs0[PATHS_USER(call.user.label)] = Absent
  /\ fs[PATHS_USER(call.user.label)] = Mount(KeyOf(call.user))

\* getAvailableName has just returned loc.name to addToLibrary
NameReturned == call.h = "addToLibrary" /\ pc = "next"

\* C15: at the return of getAvailableName no node exists at
\* containingPath/name, the name is the candidate of the turn the loop
\* stopped at, and every candidate before it is occupied
C15_CollisionFree ==
  NameReturned
    => /\ fs[joinPath(PATHS_LIBRARY, loc.name)].kind = "absent"
       /\ loc.name = CandidateName(Basename(call.title), loc.i)
       /\ \A j \in 1..(loc.i - 1) :
            fs[joinPath(PATHS_LIBRARY, CandidateName(Basename(call.title), j))].kind # "absent"

\* both calls have returned
BothDone == pc = "idle" /\ other.pc = "idle" /\ other.call.h = "addToLibrary"

\* the mount of a call's log at the path went through
Claimed(l, path) == <<"mount", path>> \in l /\ Error("mount", path) \notin l

\* both calls were allocated the same name and each issued a mount at its path
SameClaim ==
  /\ ~threw /\ ~other.threw
  /\ loc.name = other.loc.name
  /\ <<"mount", joinPath(PATHS_LIBRARY, loc.name)>> \in log \cap other.log

\* C16, the sequential half: of two addToLibrary calls that run one after the
\* other (control never passed from one to the other while it was under way),
\* the second is not allocated the name whose path the first one has mounted
C16_SequentialSafe ==
  ( /\ BothDone /\ ~other.mixed /\ ~threw
    /\ Claimed(other.log, joinPath(PATHS_LIBRARY, other.loc.name)) )
    => loc.name # other.loc.name

\* the same with no failed call in the run
C16_SequentialNoFailure ==
  ( /\ BothDone /\ ~other.mixed /\ ~threw /\ nfail = 0
    /\ Claimed(other.log, joinPath(PATHS_LIBRARY, other.loc.name)) )
    => loc.name # other.loc.name

\* C16, the race: an interleaving in which no call failed transiently, both
\* calls found the same candidate absent, both were allocated its name and
\* both issued the mount at its path, which went through for one of them
C16_Race ==
  /\ BothDone
  /\ SameClaim
  /\ other.mixed
  /\ nfail = 0
  /\ fs0[joinPath(PATHS_LIBRARY, loc.name)] = Absent
  /\ other.fs0[joinPath(PATHS_LIBRARY, loc.name)] = Absent
  /\ \/ Claimed(log, joinPath(PATHS_LIBRARY, loc.name))
     \/ Claimed(other.log, joinPath(PATHS_LIBRARY, loc.name))

\* C17: when the url of an Owner does not resolve to a key, ensureMount
\* issues no mount and no unmount at the path and leaves the node there as
\* it was, whatever it is, and the caller (addUser, setup) does not throw
C17_ResolveAbort ==
  /\ (Done("addUser") /\ KeyOf(call.user) = NoKey)
       => (fs = fs0 /\ MountCalls = {} /\ ~threw)
  /\ (Done("setup") /\ call.listed)
       => /\ ~threw
          /\ \A k \in UserIdx :
               KeyOf(call.users[k]) = NoKey
                 => /\ ~Touched(PATHS_USER(call.users[k].label))
                    /\ fs[PATHS_USER(call.users[k].label)] = fs0[PATHS_USER(call.users[k].label)]

C17_Witness ==
  /\ Done("addUser")
  /\ KeyOf(call.user) = NoKey
  /\ fs0[PATHS_USER(call.user.label)].kind = "mount"
  /\ Error("resolve", PATHS_USER(call.user.label)) \in log
  /\ fs = fs0

\* the Owner o is not in the list of this setup(), and when setup began its
\* path was mounted to its key
Deleted(o) ==
  /\ o.label \notin LabelsOf(call.users)
  /\ KeyOf(o) # NoKey
  /\ fs0[PATHS_USER(o.label)] = Mount(KeyOf(o))

\* the alias path was bound to the key of the default Owner o when the call began
AliasOf(o) == o.isDefault /\ fs0[PATHS_DEFAULT_USER] = Mount(KeyOf(o))

\* C18: after a removeUser(owner), or a setup() with a list the Owner is no
\* longer in, in which nothing failed, the Owner's path is not a mount, and
\* the alias path, when it was bound to the key of that Owner as the default
\* one, is no longer bound to that key (unless a default Owner of the new list
\* has the same key)
C18_BindingsRemoved ==
  /\ (Done("removeUser") /\ ~Failed)
       => /\ fs[PATHS_USER(call.user.label)].kind # "mount"
          /\ AliasOf(call.user) => fs[PATHS_DEFAULT_USER] # Mount(KeyOf(call.user))
  /\ (Done("setup") /\ ~Failed)
       => \A o \in OwnerPool :
            Deleted(o)
              => /\ fs[PATHS_USER(o.label)].kind # "mount"
                 /\ ( /\ AliasOf(o)
                      /\ \A k \in UserIdx :
                           call.users[k].isDefault => KeyOf(call.users[k]) # KeyOf(o) )
                      => fs[PATHS_DEFAULT_USER] # Mount(KeyOf(o))

Mutations == { e \in log : e[1] \in {"mkdir", "mount", "unmount"} }

ProbeFailed == \E e \in log : e[1] = "error" /\ e[2] = "stat"

AtMostOneDefault ==
  \A j, k \in UserIdx : (call.users[j].isDefault /\ call.users[k].isDefault) => j = k

\* this setup() follows a setup() with the same Owner list in which nothing
\* failed, and nothing else wrote to the archive in between
SteadyState ==
  Done("setup") /\ call.listed /\ call.again /\ call.clean /\ AtMostOneDefault

C20_LibraryFrame ==
  Done("addToLibrary")
    => /\ \A e \in log : e[1] # "unmount"
       /\ \A p \in AllPaths : fs0[p].kind # "absent" => fs[p] = fs0[p]
       /\ Cardinality({ p \in AllPaths : fs[p] # fs0[p] }) <= 1
       /\ \A p \in AllPaths : fs[p] # fs0[p] => fs[p] = Mount(fromURLToKey(call.url))

====
